---- MODULE Spec2Model ----
(***************************************************************************)
(* The TipJar program (programs/solana-tipjar/src/lib.rs, state.rs) as a   *)
(* state machine over one TipJar account: the account at the address       *)
(* derived from the seeds [b"tipjar", SeedUser].                           *)
(*                                                                         *)
(* Every instruction is one atomic step.  A step is: Anchor's validation   *)
(* of the instruction's Accounts struct (the read of the arguments its     *)
(* #[instruction(..)] attribute names, then the constraints on the         *)
(* accounts), then the handler on the in-memory copy of the record, then   *)
(* the write back of that copy when and only when the handler returned Ok. *)
(* The system program's transfer is an external call whose outcome is an   *)
(* input of the step.                                                      *)
(*                                                                         *)
(* Strings (description, category, memo) are modelled by their len(), and  *)
(* are ASCII.                                                              *)
(* u64/u32/u16 fields are integers without a width: within the bounds    *)
(* below every value stays far under 2^64, 2^32 and 2^16 respectively, so  *)
(* no arithmetic on them wraps.  The arguments of get_tip_history are u32   *)
(* that the caller chooses, so their product keeps its width of 32 bits.   *)
(***************************************************************************)
EXTENDS Integers, Sequences, FiniteSets, TLC

VARIABLES
    exists,        \* the account is allocated and owned by the program
    tipjar,        \* the TipJar record stored in the account
    jar_lamports,  \* the lamports held by the account
    clock,         \* Clock sysvar, unix_timestamp
    net_tips,      \* history variable: sum of the amounts of the tips accepted since
                   \* creation, less the amounts of the successful withdrawals
    tips_number,   \* history variable: number of tips accepted since creation
    since_clear,   \* history variable: the tips accepted since tips_history was last empty
    last           \* the last instruction: its caller, arguments, result and effects

vars == <<exists, tipjar, jar_lamports, clock, net_tips, tips_number,
          since_clear, last>>

(***************************************************************************)
(* Bounds of the model.                                                    *)
(***************************************************************************)
\* Capacity of the ring buffer of send_tip.  The program's value is 100
\* (MAX_TIPS_HISTORY_LEN below); the model keeps the algorithm and scales the
\* capacity.  The size of the account is not scaled: TipJarSpace takes the
\* program's value.
MAX_TIP_HISTORY_LEN == 2
\* Tips accepted during one life of the jar: enough to wrap the buffer.
MaxTips == MAX_TIP_HISTORY_LEN + 2
\* Lamports the account is created with (its rent-exempt minimum).
RentLamports == 1

(***************************************************************************)
(* Program constants.                                                      *)
(***************************************************************************)
WITHDRAW_LIMIT == 1000
MAX_DESCRIPTION_LEN == 200
MAX_CATEGORY_LEN == 100
MAX_MEMO_LEN == 100
\* The number of tips the account is sized for.
MAX_TIPS_HISTORY_LEN == 100
\* TipJar::DISCRIMINATOR_LENGTH, TipJar::STATIC_SIZE and Tip::SIZE (state.rs).
DISCRIMINATOR_LENGTH == 8
STATIC_SIZE == 1 + 1 + 32 + 8 + 8 + 1 + 2 + 4
TIP_SIZE == 32 + 8 + 1 + (4 + 100) + 8

(***************************************************************************)
(* Identities and inputs.                                                  *)
(***************************************************************************)
Users == {"alice", "bob"}
\* The user whose key is in the seeds of the modelled account's address.
SeedUser == "alice"
\* Pubkey::default(), the owner field of zeroed account data.
DefaultPubkey == "default"
\* The address of the TipJar account.
JarKey == "tipjar"

Visibility == {"Public", "Anonymous"}

\* The values Clock::get()?.unix_timestamp takes; it never goes back.
Times == {0, 1}

\* Arguments of send_tip, sender included.  The first two are tips whose
\* amounts are the largest the read of the instruction's data lets through
\* with their memos (9 + the memo's length); then a zero amount and a memo
\* that is too long; then a tip with a valid amount and memo that the read
\* does not let through, and one with a memo that is too long as well.
SendTipInputs ==
    { [sender |-> "alice", amount |-> 9,   visibility |-> "Public",    memo |-> 0],
      [sender |-> "bob",   amount |-> 109, visibility |-> "Anonymous", memo |-> 100],
      [sender |-> "bob",   amount |-> 0,   visibility |-> "Public",    memo |-> 0],
      [sender |-> "alice", amount |-> 9,   visibility |-> "Public",    memo |-> 101],
      [sender |-> "bob",   amount |-> 500, visibility |-> "Public",    memo |-> 0],
      [sender |-> "alice", amount |-> 500, visibility |-> "Public",    memo |-> 101] }

\* Arguments of initialize_tipjar: valid ones, each of the three faults alone,
\* and the three together.
InitializeInputs ==
    { [description |-> 200, category |-> 100, goal |-> 100],
      [description |-> 200, category |-> 100, goal |-> 0],
      [description |-> 201, category |-> 100, goal |-> 100],
      [description |-> 200, category |-> 101, goal |-> 100],
      [description |-> 201, category |-> 101, goal |-> 0] }

\* Arguments of update_tipjar.
UpdateInputs ==
    { [description |-> 201, category |-> 101, goal |-> 0] }

\* Arguments of withdraw_tip: the amount of a tip, and an amount over the
\* limit.
WithdrawInputs == {109, 1500}

\* 2^16: a u32 is two digits in this base.
TwoTo16 == 65536

\* Arguments of get_tip_history: the second page of pages of one entry, a
\* first page with a page size over the length, and a page and a page size
\* whose product is 2^32.
PageInputs ==
    { [page |-> 1,       page_size |-> 1],
      [page |-> 0,       page_size |-> TwoTo16],
      [page |-> TwoTo16, page_size |-> TwoTo16] }

(***************************************************************************)
(* The record.                                                             *)
(***************************************************************************)
\* The bump of the account's address.
PdaBump == 255

\* A Tip (state.rs).
Tip(sender, amount, visibility, memo, timestamp) ==
    [sender |-> sender, amount |-> amount, visibility |-> visibility,
     memo |-> memo, timestamp |-> timestamp]

\* The record of an account that does not exist, and of one just allocated
\* by `init`: zeroed data.
ZeroTipJar ==
    [is_active |-> FALSE, is_private |-> FALSE, owner |-> DefaultPubkey,
     description |-> 0, category |-> 0, goal |-> 0, total_received |-> 0,
     tips_history |-> <<>>, last_tip_index |-> 0, total_tips_count |-> 0,
     bump |-> 0]

\* What a handler returns: its result, the in-memory record at the return,
\* the transfers it invoked (whatever their outcome) and the events it
\* emitted.
Out(result, rec, invoked, events) ==
    [result |-> result, rec |-> rec, invoked |-> invoked, events |-> events]

Transfer(from, to, amount) == [from |-> from, to |-> to, amount |-> amount]

\* The system program's create_account that `init` invokes.
CreateAccount(from, to, lamports, space) ==
    [from |-> from, to |-> to, lamports |-> lamports, space |-> space]

(***************************************************************************)
(* Anchor's validation of the Accounts structs, which runs before the      *)
(* handler.                                                                *)
(***************************************************************************)
\* Account<'info, TipJar>: the account must exist and hold a TipJar.
AccountLoaded(ex) == ex

\* has_one = owner: the record's owner field is the key of the `owner` account.
HasOneOwner(rec, owner) == rec.owner = owner

\* TipJar::space(), which is TipJar::LEN: the discriminator, the static
\* fields, the two strings and the history at their maximal lengths.
TipJarSpace ==
    DISCRIMINATOR_LENGTH + STATIC_SIZE
        + (4 + MAX_DESCRIPTION_LEN) + (4 + MAX_CATEGORY_LEN)
        + (4 + MAX_TIPS_HISTORY_LEN * TIP_SIZE)

\* space = 8 + TipJar::LEN, the size `init` asks for.
InitSpace == 8 + TipJarSpace

\* InitializeTipJar: the address is derived from the user's key, and `init`
\* creates the account, which must not exist yet, by an invocation of the
\* system program for InitSpace bytes.  Like the transfers, that invocation
\* is an external call: whether it succeeds (the payer's lamports, what the
\* runtime allows) is an input of the step, `created`.  (The read of
\* #[instruction(description, category)] takes the first two arguments of the
\* handler, as they were sent, and does not fail.)
InitializeTipJarAccounts(ex, user, created) ==
    IF user # SeedUser THEN "ConstraintSeeds"
    ELSE IF ex THEN "AccountAlreadyInUse"
    ELSE IF ~created THEN "CreateAccountFailed"
    ELSE "Ok"

\* The low 32 bits of a u64, by its 16-bit digits.
LowU32(a) == ((a \div TwoTo16) % TwoTo16) * TwoTo16 + (a % TwoTo16)

\* #[instruction(memo: String)] on SendTip.  Anchor reads the arguments the
\* attribute names from the start of the instruction's data, before it looks
\* at any account.  The data are those of send_tip(amount: u64, visibility,
\* memo: String): 8 bytes of amount, 1 of visibility, 4 of memo length and
\* the memo.  The String read there takes the low 4 bytes of the amount for
\* its length and needs that many of the bytes that follow them: the high 4
\* of the amount, the visibility, the memo's length and the memo (bytes that
\* are valid UTF-8 for the amounts and memos of this model, all under 128).
SendTipInstructionRead(amount, memo) ==
    LowU32(amount) <= (8 - 4) + 1 + (4 + memo)

\* SendTip: the read of #[instruction(memo: String)], then
\* #[account(mut)] tipjar, and a signer.
SendTipAccounts(ex, amount, memo) ==
    IF ~SendTipInstructionRead(amount, memo)
        THEN "InstructionDidNotDeserialize"
    ELSE IF ~AccountLoaded(ex) THEN "AccountNotInitialized"
    ELSE "Ok"

\* ClearTipHistory, ToggleTipJarStatus, UpdateTipJar, PauseTipJar,
\* ResumeTipJar, WithdrawTip, CloseTipJar: #[account(mut, has_one = owner)].
OwnerAccounts(ex, rec, owner) ==
    IF ~AccountLoaded(ex) THEN "AccountNotInitialized"
    ELSE IF ~HasOneOwner(rec, owner) THEN "ConstraintHasOne"
    ELSE "Ok"

\* A write back that also happens when the handler returned an error.
Commit_on_error(old, out) == out.rec

\* The record is written back to the account when the handler returned Ok;
\* an error aborts the instruction and the account keeps its data.
Commit(old, out) == IF out.result = "Ok" THEN out.rec ELSE old

\* The lamports of the account after the instruction: the transfers the
\* handler invoked have moved when the instruction succeeded.
RECURSIVE Moved(_)
Moved(invoked) ==
    IF invoked = <<>> THEN 0
    ELSE (IF Head(invoked).to = JarKey THEN Head(invoked).amount ELSE 0)
         - (IF Head(invoked).from = JarKey THEN Head(invoked).amount ELSE 0)
         + Moved(Tail(invoked))

LamportsAfter(lamports, out) ==
    IF out.result = "Ok" THEN lamports + Moved(out.invoked) ELSE lamports

(***************************************************************************)
(* The handlers, on the in-memory record.                                  *)
(***************************************************************************)
\* initialize_tipjar without the check of the goal.
initialize_tipjar_goal_unchecked(rec, user, description, category, goal) ==
    IF ~(description <= MAX_DESCRIPTION_LEN)
        THEN Out("DescriptionTooLong", rec, <<>>, <<>>)
    ELSE IF ~(category <= MAX_CATEGORY_LEN)
        THEN Out("CategoryTooLong", rec, <<>>, <<>>)
    ELSE Out("Ok",
             [rec EXCEPT !.description = description,
                         !.category = category,
                         !.goal = goal,
                         !.total_received = 0,
                         !.is_active = TRUE,
                         !.owner = user,
                         !.bump = PdaBump],
             <<>>, <<>>)

initialize_tipjar(rec, user, description, category, goal) ==
    IF ~(goal > 0) THEN Out("InvalidGoal", rec, <<>>, <<>>)
    ELSE IF ~(description <= MAX_DESCRIPTION_LEN)
        THEN Out("DescriptionTooLong", rec, <<>>, <<>>)
    ELSE IF ~(category <= MAX_CATEGORY_LEN)
        THEN Out("CategoryTooLong", rec, <<>>, <<>>)
    ELSE Out("Ok",
             [rec EXCEPT !.description = description,
                         !.category = category,
                         !.goal = goal,
                         !.total_received = 0,
                         !.is_active = TRUE,
                         !.owner = user,
                         !.bump = PdaBump],
             <<>>, <<>>)

\* record_tip that overwrites without advancing last_tip_index.
record_tip_stuck(rec, new_tip) ==
    IF Len(rec.tips_history) < MAX_TIP_HISTORY_LEN
    THEN [rec EXCEPT !.tips_history = Append(@, new_tip)]
    ELSE LET index == rec.last_tip_index % MAX_TIP_HISTORY_LEN
         IN  [rec EXCEPT !.tips_history = [@ EXCEPT ![index + 1] = new_tip]]

\* record_tip with an off-by-one capacity test.
record_tip_one_more(rec, new_tip) ==
    IF Len(rec.tips_history) <= MAX_TIP_HISTORY_LEN
    THEN [rec EXCEPT !.tips_history = Append(@, new_tip)]
    ELSE LET index == rec.last_tip_index % MAX_TIP_HISTORY_LEN
         IN  [rec EXCEPT !.tips_history = [@ EXCEPT ![index + 1] = new_tip],
                         !.last_tip_index =
                             (rec.last_tip_index + 1) % MAX_TIP_HISTORY_LEN]

\* record_tip that overwrites the slot after the one at last_tip_index.
record_tip_skips_oldest(rec, new_tip) ==
    IF Len(rec.tips_history) < MAX_TIP_HISTORY_LEN
    THEN [rec EXCEPT !.tips_history = Append(@, new_tip)]
    ELSE LET index == (rec.last_tip_index + 1) % MAX_TIP_HISTORY_LEN
         IN  [rec EXCEPT !.tips_history = [@ EXCEPT ![index + 1] = new_tip],
                         !.last_tip_index =
                             (rec.last_tip_index + 1) % MAX_TIP_HISTORY_LEN]

\* The circular buffer of send_tip: append while there is room, then
\* overwrite the slot at last_tip_index and advance it.
record_tip(rec, new_tip) ==
    IF Len(rec.tips_history) < MAX_TIP_HISTORY_LEN
    THEN [rec EXCEPT !.tips_history = Append(@, new_tip)]
    ELSE LET index == rec.last_tip_index % MAX_TIP_HISTORY_LEN
         IN  [rec EXCEPT !.tips_history = [@ EXCEPT ![index + 1] = new_tip],
                         !.last_tip_index =
                             (rec.last_tip_index + 1) % MAX_TIP_HISTORY_LEN]

\* send_tip_accept with GoalReached emitted only by the tip that crosses the
\* goal.
send_tip_accept_goal_once(rec, sender, amount, visibility, memo, now, transfer_ok) ==
    LET new_tip == Tip(sender, amount, visibility, memo, now)
        stored  == record_tip(rec, new_tip)
        counted == [stored EXCEPT !.total_tips_count = @ + 1]
        ix      == Transfer(sender, JarKey, amount)
    IN  IF ~transfer_ok THEN Out("TransferFailed", counted, <<ix>>, <<>>)
        ELSE
            LET credited == [counted EXCEPT !.total_received = @ + amount]
                tip_sent == [type |-> "TipSent", sender |-> sender,
                             receiver |-> JarKey, amount |-> amount,
                             memo |-> memo, visibility |-> visibility]
                goal_reached == [type |-> "GoalReached", tipjar |-> JarKey,
                                 goal |-> credited.goal,
                                 total_received |-> credited.total_received]
            IN  Out("Ok", credited, <<ix>>,
                    IF /\ credited.total_received >= credited.goal
                       /\ counted.total_received < counted.goal
                    THEN <<tip_sent, goal_reached>>
                    ELSE <<tip_sent>>)

\* send_tip_accept that drops the result of the transfer instead of
\* returning it.
send_tip_accept_ignores_failure(rec, sender, amount, visibility, memo, now, transfer_ok) ==
    LET new_tip == Tip(sender, amount, visibility, memo, now)
        stored  == record_tip(rec, new_tip)
        counted == [stored EXCEPT !.total_tips_count = @ + 1]
        ix      == Transfer(sender, JarKey, amount)
        credited == [counted EXCEPT !.total_received = @ + amount]
        tip_sent == [type |-> "TipSent", sender |-> sender,
                     receiver |-> JarKey, amount |-> amount,
                     memo |-> memo, visibility |-> visibility]
        goal_reached == [type |-> "GoalReached", tipjar |-> JarKey,
                         goal |-> credited.goal,
                         total_received |-> credited.total_received]
    IN  Out("Ok", credited, <<ix>>,
            IF credited.total_received >= credited.goal
            THEN <<tip_sent, goal_reached>>
            ELSE <<tip_sent>>)

\* send_tip once the tip is let in: the tip is stored and counted, then the
\* transfer is invoked, then the amount is credited and the events emitted.
send_tip_accept(rec, sender, amount, visibility, memo, now, transfer_ok) ==
    LET new_tip == Tip(sender, amount, visibility, memo, now)
        stored  == record_tip(rec, new_tip)
        counted == [stored EXCEPT !.total_tips_count = @ + 1]
        ix      == Transfer(sender, JarKey, amount)
    IN  IF ~transfer_ok THEN Out("TransferFailed", counted, <<ix>>, <<>>)
        ELSE
            LET credited == [counted EXCEPT !.total_received = @ + amount]
                tip_sent == [type |-> "TipSent", sender |-> sender,
                             receiver |-> JarKey, amount |-> amount,
                             memo |-> memo, visibility |-> visibility]
                goal_reached == [type |-> "GoalReached", tipjar |-> JarKey,
                                 goal |-> credited.goal,
                                 total_received |-> credited.total_received]
            IN  Out("Ok", credited, <<ix>>,
                    IF credited.total_received >= credited.goal
                    THEN <<tip_sent, goal_reached>>
                    ELSE <<tip_sent>>)

\* The TipRefunded event of a paused jar.
TipRefunded(sender, amount, now) ==
    [type |-> "TipRefunded", tipjar |-> JarKey, sender |-> sender,
     lamports |-> amount, timestamp |-> now]

send_tip(rec, sender, amount, visibility, memo, now, transfer_ok) ==
    IF ~(amount > 0) THEN Out("InvalidAmount", rec, <<>>, <<>>)
    ELSE IF ~(memo <= MAX_MEMO_LEN) THEN Out("MemoTooLong", rec, <<>>, <<>>)
    ELSE IF ~rec.is_active
        THEN Out("Ok", rec, <<>>, <<TipRefunded(sender, amount, now)>>)
    ELSE IF rec.is_private /\ sender # rec.owner
        THEN Out("Unauthorized", rec, <<>>, <<>>)
    ELSE send_tip_accept(rec, sender, amount, visibility, memo, now, transfer_ok)

\* page * page_size on u32, by the 16-bit digits of the factors: the digits of
\* the product that stay within 32 bits, and whether any digit falls beyond.
MulU32(a, b) ==
    LET ah == a \div TwoTo16
        al == a % TwoTo16
        bh == b \div TwoTo16
        bl == b % TwoTo16
        low == al * bl
        mid == ah * bl + al * bh + (low \div TwoTo16)
    IN  [wrapped  |-> (mid % TwoTo16) * TwoTo16 + (low % TwoTo16),
         overflow |-> (ah * bh > 0) \/ (mid >= TwoTo16)]

\* The helper get_tip_history.  overflow_checks is the build's setting for
\* integer overflow: with it the multiplication panics when the product does
\* not fit a u32, without it the product wraps.
get_tip_history(tip_jar, page, page_size, overflow_checks) ==
    LET product == MulU32(page, page_size)
        len == Len(tip_jar.tips_history)
    IN  IF overflow_checks /\ product.overflow
        THEN [result |-> "Panic", returned |-> <<>>]
        ELSE
            LET start == product.wrapped
                end == IF start + page_size <= len THEN start + page_size
                       ELSE len
            IN  IF start >= len THEN [result |-> "Ok", returned |-> <<>>]
                ELSE [result |-> "Ok",
                      returned |-> SubSeq(tip_jar.tips_history, start + 1, end)]

\* clear_tip_history that also resets the count of tips.
clear_tip_history_resets_count(rec, owner) ==
    IF rec.owner # owner THEN Out("Unauthorized", rec, <<>>, <<>>)
    ELSE Out("Ok", [rec EXCEPT !.tips_history = <<>>, !.last_tip_index = 0,
                               !.total_tips_count = 0],
             <<>>, <<>>)

\* clear_tip_history that also resets the owner to the default key.
clear_tip_history_resets_owner(rec, owner) ==
    IF rec.owner # owner THEN Out("Unauthorized", rec, <<>>, <<>>)
    ELSE Out("Ok", [rec EXCEPT !.tips_history = <<>>, !.last_tip_index = 0,
                               !.owner = DefaultPubkey],
             <<>>, <<>>)

\* clear_tip_history that leaves last_tip_index where it is.
clear_tip_history_keeps_index(rec, owner) ==
    IF rec.owner # owner THEN Out("Unauthorized", rec, <<>>, <<>>)
    ELSE Out("Ok", [rec EXCEPT !.tips_history = <<>>], <<>>, <<>>)

clear_tip_history(rec, owner) ==
    IF rec.owner # owner THEN Out("Unauthorized", rec, <<>>, <<>>)
    ELSE Out("Ok", [rec EXCEPT !.tips_history = <<>>, !.last_tip_index = 0],
             <<>>, <<>>)

\* toggle_tipjar_status with the test of the no-op flip turned around.
toggle_tipjar_status_redundant(rec, signer) ==
    IF rec.owner # signer THEN Out("Unauthorized", rec, <<>>, <<>>)
    ELSE
        LET new_status == ~rec.is_active
        IN  IF ~(rec.is_active = new_status)
            THEN Out("RedundantStatusChange", rec, <<>>, <<>>)
            ELSE Out("Ok", [rec EXCEPT !.is_active = new_status], <<>>,
                     << [type |-> "TipJarStatusChanged", tipjar |-> JarKey,
                         is_active |-> new_status] >>)

toggle_tipjar_status(rec, signer) ==
    IF rec.owner # signer THEN Out("Unauthorized", rec, <<>>, <<>>)
    ELSE
        LET new_status == ~rec.is_active
        IN  IF ~(rec.is_active # new_status)
            THEN Out("RedundantStatusChange", rec, <<>>, <<>>)
            ELSE Out("Ok", [rec EXCEPT !.is_active = new_status], <<>>,
                     << [type |-> "TipJarStatusChanged", tipjar |-> JarKey,
                         is_active |-> new_status] >>)

\* update_tipjar that also makes the jar private.
update_tipjar_makes_private(rec, signer, new_description, new_category, new_goal) ==
    IF rec.owner # signer THEN Out("Unauthorized", rec, <<>>, <<>>)
    ELSE Out("Ok",
             [rec EXCEPT !.description = new_description,
                         !.category = new_category,
                         !.goal = new_goal,
                         !.is_private = TRUE],
             <<>>, <<>>)

update_tipjar(rec, signer, new_description, new_category, new_goal) ==
    IF rec.owner # signer THEN Out("Unauthorized", rec, <<>>, <<>>)
    ELSE Out("Ok",
             [rec EXCEPT !.description = new_description,
                         !.category = new_category,
                         !.goal = new_goal],
             <<>>, <<>>)

\* withdraw_tip with the two checks of the amount in the other order.
withdraw_tip_limit_first(rec, signer, amount, transfer_ok) ==
    IF rec.owner # signer THEN Out("Unauthorized", rec, <<>>, <<>>)
    ELSE IF ~(amount <= WITHDRAW_LIMIT)
        THEN Out("WithdrawalLimitExceeded", rec, <<>>, <<>>)
    ELSE IF ~(rec.total_received >= amount)
        THEN Out("InsufficientFunds", rec, <<>>, <<>>)
    ELSE
        LET ix == Transfer(JarKey, signer, amount)
        IN  IF ~transfer_ok THEN Out("TransferFailed", rec, <<ix>>, <<>>)
            ELSE Out("Ok", [rec EXCEPT !.total_received = @ - amount],
                     <<ix>>, <<>>)

\* withdraw_tip without the debit of total_received.
withdraw_tip_no_debit(rec, signer, amount, transfer_ok) ==
    IF rec.owner # signer THEN Out("Unauthorized", rec, <<>>, <<>>)
    ELSE IF ~(rec.total_received >= amount)
        THEN Out("InsufficientFunds", rec, <<>>, <<>>)
    ELSE IF ~(amount <= WITHDRAW_LIMIT)
        THEN Out("WithdrawalLimitExceeded", rec, <<>>, <<>>)
    ELSE
        LET ix == Transfer(JarKey, signer, amount)
        IN  IF ~transfer_ok THEN Out("TransferFailed", rec, <<ix>>, <<>>)
            ELSE Out("Ok", rec, <<ix>>, <<>>)

withdraw_tip(rec, signer, amount, transfer_ok) ==
    IF rec.owner # signer THEN Out("Unauthorized", rec, <<>>, <<>>)
    ELSE IF ~(rec.total_received >= amount)
        THEN Out("InsufficientFunds", rec, <<>>, <<>>)
    ELSE IF ~(amount <= WITHDRAW_LIMIT)
        THEN Out("WithdrawalLimitExceeded", rec, <<>>, <<>>)
    ELSE
        LET ix == Transfer(JarKey, signer, amount)
        IN  IF ~transfer_ok THEN Out("TransferFailed", rec, <<ix>>, <<>>)
            ELSE Out("Ok", [rec EXCEPT !.total_received = @ - amount],
                     <<ix>>, <<>>)

\* pause_tipjar that refuses to pause a jar that is paused already.
pause_tipjar_redundant(rec, owner) ==
    IF rec.owner # owner THEN Out("Unauthorized", rec, <<>>, <<>>)
    ELSE IF ~rec.is_active THEN Out("RedundantStatusChange", rec, <<>>, <<>>)
    ELSE Out("Ok", [rec EXCEPT !.is_active = FALSE], <<>>, <<>>)

pause_tipjar(rec, owner) ==
    IF rec.owner # owner THEN Out("Unauthorized", rec, <<>>, <<>>)
    ELSE Out("Ok", [rec EXCEPT !.is_active = FALSE], <<>>, <<>>)

resume_tipjar(rec, owner) ==
    IF rec.owner # owner THEN Out("Unauthorized", rec, <<>>, <<>>)
    ELSE Out("Ok", [rec EXCEPT !.is_active = TRUE], <<>>, <<>>)

\* close_tipjar that invokes the transfer whatever the amount.
close_tipjar_always_transfers(rec, owner, transfer_ok) ==
    IF rec.owner # owner THEN Out("Unauthorized", rec, <<>>, <<>>)
    ELSE
        LET amount_to_transfer == rec.total_received
            ix == Transfer(JarKey, owner, amount_to_transfer)
        IN  IF ~transfer_ok THEN Out("TransferFailed", rec, <<ix>>, <<>>)
            ELSE Out("Ok", rec, <<ix>>, <<>>)

\* close_tipjar up to its transfer; the handler then moves every lamport of
\* the account to the owner (see CloseTipJar).
close_tipjar(rec, owner, transfer_ok) ==
    IF rec.owner # owner THEN Out("Unauthorized", rec, <<>>, <<>>)
    ELSE
        LET amount_to_transfer == rec.total_received
            ix == Transfer(JarKey, owner, amount_to_transfer)
        IN  IF amount_to_transfer > 0
            THEN IF ~transfer_ok THEN Out("TransferFailed", rec, <<ix>>, <<>>)
                 ELSE Out("Ok", rec, <<ix>>, <<>>)
            ELSE Out("Ok", rec, <<>>, <<>>)

\* An instruction whose Accounts struct was rejected: the handler never ran.
Rejected(rec, error) == Out(error, rec, <<>>, <<>>)

(***************************************************************************)
(* The state machine.                                                      *)
(***************************************************************************)
\* The description of an instruction that has run (returned is what
\* get_tip_history gave back, and empty for the instructions), with three history
\* fields: transfer_failed tells that a transfer the instruction invoked
\* failed, was_active is is_active as the instruction found it, after_close
\* tells that close_tipjar has succeeded and no instruction has succeeded
\* since, and toggles tells whether this instruction ends a run of one or of
\* two and more successful calls of toggle_tipjar_status.
Call(op, caller, args, out) ==
    [op |-> op, caller |-> caller, args |-> args, result |-> out.result,
     invoked |-> out.invoked, events |-> out.events, returned |-> <<>>,
     transfer_failed |-> FALSE,
     was_active |-> tipjar.is_active,
     after_close |-> IF out.result = "Ok" THEN op = "close_tipjar"
                     ELSE last.after_close,
     toggles |-> IF op = "toggle_tipjar_status" /\ out.result = "Ok"
                 THEN (IF last.toggles = 0 THEN 1 ELSE 2)
                 ELSE 0]

NoArgs == <<>>

NoCall == [op |-> "none", caller |-> DefaultPubkey, args |-> NoArgs,
           result |-> "Ok", invoked |-> <<>>, events |-> <<>>,
           returned |-> <<>>, transfer_failed |-> FALSE, was_active |-> FALSE,
           after_close |-> FALSE, toggles |-> 0]

\* The program as deployed: no account at the address.
Init ==
    /\ exists = FALSE
    /\ tipjar = ZeroTipJar
    /\ jar_lamports = 0
    /\ clock = 0
    /\ net_tips = 0
    /\ tips_number = 0
    /\ since_clear = <<>>
    /\ last = NoCall

InitializeTipJar ==
    \E user \in Users, in \in InitializeInputs, created \in BOOLEAN :
        LET accounts == InitializeTipJarAccounts(exists, user, created)
            out == IF accounts # "Ok" THEN Rejected(tipjar, accounts)
                   ELSE initialize_tipjar(ZeroTipJar, user, in.description,
                                          in.category, in.goal)
            ok == out.result = "Ok"
        IN  /\ tipjar' = Commit(tipjar, out)
            /\ exists' = (exists \/ ok)
            /\ jar_lamports' = IF ok THEN RentLamports ELSE jar_lamports
            /\ net_tips' = IF ok THEN 0 ELSE net_tips
            /\ tips_number' = IF ok THEN 0 ELSE tips_number
            /\ since_clear' = IF ok THEN <<>> ELSE since_clear
            /\ last' = [Call("initialize_tipjar", user, in, out)
                            EXCEPT !.invoked =
                                IF accounts = "ConstraintSeeds" THEN <<>>
                                ELSE <<CreateAccount(user, JarKey, RentLamports,
                                                     InitSpace)>>]
            /\ UNCHANGED clock

SendTip ==
    /\ tips_number < MaxTips
    /\ \E in \in SendTipInputs, now \in Times, transfer_ok \in BOOLEAN :
        LET accounts == SendTipAccounts(exists, in.amount, in.memo)
            out == IF accounts # "Ok" THEN Rejected(tipjar, accounts)
                   ELSE send_tip(tipjar, in.sender, in.amount, in.visibility,
                                 in.memo, now, transfer_ok)
            took == out.result = "Ok" /\ out.invoked # <<>>
            new_tip == Tip(in.sender, in.amount, in.visibility, in.memo, now)
        IN  /\ now >= clock
            /\ clock' = now
            /\ tipjar' = Commit(tipjar, out)
            /\ jar_lamports' = LamportsAfter(jar_lamports, out)
            /\ net_tips' = IF took THEN net_tips + in.amount ELSE net_tips
            /\ tips_number' = IF took THEN tips_number + 1 ELSE tips_number
            /\ since_clear' = IF took THEN Append(since_clear, new_tip)
                              ELSE since_clear
            /\ last' = [Call("send_tip", in.sender,
                              [amount |-> in.amount,
                               visibility |-> in.visibility,
                               memo |-> in.memo], out)
                            EXCEPT !.transfer_failed =
                                out.invoked # <<>> /\ ~transfer_ok]
            /\ UNCHANGED exists

\* get_tip_history applied to the record of the jar.  It is a function of
\* the record and has no signer.
GetTipHistory ==
    \E in \in PageInputs, overflow_checks \in BOOLEAN :
        LET got == get_tip_history(tipjar, in.page, in.page_size, overflow_checks)
            out == Out(got.result, tipjar, <<>>, <<>>)
        IN  /\ exists
            /\ last' = [Call("get_tip_history", DefaultPubkey, in, out)
                            EXCEPT !.returned = got.returned]
            /\ UNCHANGED <<exists, tipjar, jar_lamports, clock, net_tips,
                           tips_number, since_clear>>

ClearTipHistory ==
    \E owner \in Users :
        LET accounts == OwnerAccounts(exists, tipjar, owner)
            out == IF accounts # "Ok" THEN Rejected(tipjar, accounts)
                   ELSE clear_tip_history(tipjar, owner)
        IN  /\ tipjar' = Commit(tipjar, out)
            /\ since_clear' = IF out.result = "Ok" THEN <<>> ELSE since_clear
            /\ last' = Call("clear_tip_history", owner, NoArgs, out)
            /\ UNCHANGED <<exists, jar_lamports, clock, net_tips, tips_number>>

ToggleTipJarStatus ==
    \E owner \in Users :
        LET accounts == OwnerAccounts(exists, tipjar, owner)
            out == IF accounts # "Ok" THEN Rejected(tipjar, accounts)
                   ELSE toggle_tipjar_status(tipjar, owner)
        IN  /\ tipjar' = Commit(tipjar, out)
            /\ last' = Call("toggle_tipjar_status", owner, NoArgs, out)
            /\ UNCHANGED <<exists, jar_lamports, clock, net_tips, tips_number,
                           since_clear>>

UpdateTipJar ==
    \E owner \in Users, in \in UpdateInputs :
        LET accounts == OwnerAccounts(exists, tipjar, owner)
            out == IF accounts # "Ok" THEN Rejected(tipjar, accounts)
                   ELSE update_tipjar(tipjar, owner, in.description, in.category,
                                      in.goal)
        IN  /\ tipjar' = Commit(tipjar, out)
            /\ last' = Call("update_tipjar", owner, in, out)
            /\ UNCHANGED <<exists, jar_lamports, clock, net_tips, tips_number,
                           since_clear>>

WithdrawTip ==
    \E owner \in Users, amount \in WithdrawInputs, transfer_ok \in BOOLEAN :
        LET accounts == OwnerAccounts(exists, tipjar, owner)
            out == IF accounts # "Ok" THEN Rejected(tipjar, accounts)
                   ELSE withdraw_tip(tipjar, owner, amount, transfer_ok)
        IN  /\ tipjar' = Commit(tipjar, out)
            /\ jar_lamports' = LamportsAfter(jar_lamports, out)
            /\ net_tips' = IF out.result = "Ok" THEN net_tips - amount
                           ELSE net_tips
            /\ last' = [Call("withdraw_tip", owner, [amount |-> amount], out)
                            EXCEPT !.transfer_failed =
                                out.invoked # <<>> /\ ~transfer_ok]
            /\ UNCHANGED <<exists, clock, tips_number, since_clear>>

PauseTipJar ==
    \E owner \in Users :
        LET accounts == OwnerAccounts(exists, tipjar, owner)
            out == IF accounts # "Ok" THEN Rejected(tipjar, accounts)
                   ELSE pause_tipjar(tipjar, owner)
        IN  /\ tipjar' = Commit(tipjar, out)
            /\ last' = Call("pause_tipjar", owner, NoArgs, out)
            /\ UNCHANGED <<exists, jar_lamports, clock, net_tips, tips_number,
                           since_clear>>

ResumeTipJar ==
    \E owner \in Users :
        LET accounts == OwnerAccounts(exists, tipjar, owner)
            out == IF accounts # "Ok" THEN Rejected(tipjar, accounts)
                   ELSE resume_tipjar(tipjar, owner)
        IN  /\ tipjar' = Commit(tipjar, out)
            /\ last' = Call("resume_tipjar", owner, NoArgs, out)
            /\ UNCHANGED <<exists, jar_lamports, clock, net_tips, tips_number,
                           since_clear>>

\* The lamports left in the account when close_tipjar returns Ok: the handler
\* has added them all to the owner's and set the account's to 0.
DrainedLamports(lamports) == 0

\* The account after `close = owner`: released, its data gone.
ClosedTipJar(rec) == ZeroTipJar

CloseTipJar ==
    \E owner \in Users, transfer_ok \in BOOLEAN :
        LET accounts == OwnerAccounts(exists, tipjar, owner)
            out == IF accounts # "Ok" THEN Rejected(tipjar, accounts)
                   ELSE close_tipjar(tipjar, owner, transfer_ok)
            ok == out.result = "Ok"
        IN  /\ tipjar' = IF ok THEN ClosedTipJar(Commit(tipjar, out)) ELSE tipjar
            /\ exists' = (exists /\ ~ok)
            /\ jar_lamports' =
                   IF ok THEN DrainedLamports(LamportsAfter(jar_lamports, out))
                   ELSE jar_lamports
            /\ net_tips' = IF ok THEN 0 ELSE net_tips
            /\ tips_number' = IF ok THEN 0 ELSE tips_number
            /\ since_clear' = IF ok THEN <<>> ELSE since_clear
            /\ last' = [Call("close_tipjar", owner, NoArgs, out)
                            EXCEPT !.transfer_failed =
                                out.invoked # <<>> /\ ~transfer_ok]
            /\ UNCHANGED clock

Next ==
    \/ InitializeTipJar
    \/ SendTip
    \/ GetTipHistory
    \/ ClearTipHistory
    \/ ToggleTipJarStatus
    \/ UpdateTipJar
    \/ WithdrawTip
    \/ PauseTipJar
    \/ ResumeTipJar
    \/ CloseTipJar

Spec == Init /\ [][Next]_vars

\* The record the handler initialize_tipjar writes for SeedUser.
InitializedTipJar ==
    initialize_tipjar(ZeroTipJar, SeedUser, MAX_DESCRIPTION_LEN,
                      MAX_CATEGORY_LEN, 100).rec

\* The jar SeedUser has created: the state a successful initialize_tipjar
\* leaves, which is where the life of a jar starts.
InitJar ==
    /\ exists = TRUE
    /\ tipjar = InitializedTipJar
    /\ jar_lamports = RentLamports
    /\ clock = 0
    /\ net_tips = 0
    /\ tips_number = 0
    /\ since_clear = <<>>
    /\ last = NoCall

SpecJar == InitJar /\ [][Next]_vars

\* The record of a jar that holds more than the withdrawal limit: the one
\* SeedUser created, after fourteen tips that add up to 1500 lamports
\* (thirteen of 109 with memos of 100 bytes, one of 83) and a
\* clear_tip_history.
FundedTipJar ==
    [InitializedTipJar EXCEPT !.total_received = 1500,
                              !.total_tips_count = 14]

\* withdraw_tip as a function of the record it is given: a jar with that
\* record.  It takes more tips than a behaviour from InitJar has to get there.
InitFundedJar ==
    /\ exists = TRUE
    /\ tipjar = FundedTipJar
    /\ jar_lamports = RentLamports + FundedTipJar.total_received
    /\ clock = 0
    /\ net_tips = FundedTipJar.total_received
    /\ tips_number = FundedTipJar.total_tips_count
    /\ since_clear = <<>>
    /\ last = NoCall

SpecFundedJar == InitFundedJar /\ [][Next]_vars

(***************************************************************************)
(* Properties.                                                             *)
(***************************************************************************)
\* The last instruction was a send_tip whose amount and memo pass validation.
ValidSendTip(call) ==
    /\ call.op = "send_tip"
    /\ call.args.amount > 0
    /\ call.args.memo <= MAX_MEMO_LEN

\* C1: whatever instructions have run on the jar, total_received is the sum of
\* the amounts of the accepted tips less the sum of the successful withdrawal
\* amounts; what tips_history holds does not enter into it.
C1_TotalReceivedIsNetOfTips ==
    exists => tipjar.total_received = net_tips

\* C1 witness: the owner has withdrawn from a jar whose history was cleared,
\* and part of the tips is still credited.
C1_Witness ==
    /\ exists
    /\ last.op = "withdraw_tip"
    /\ last.result = "Ok"
    /\ tipjar.tips_history = <<>>
    /\ tipjar.total_received > 0
    /\ tipjar.total_tips_count > 1

\* C2: a send_tip whose transfer from the sender to the jar fails is an
\* error, and leaves tips_history, last_tip_index, total_tips_count and
\* total_received (the whole record, and the account's lamports) as they
\* were before the call; it emits nothing.
C2_FailedTransferLeavesRecord ==
    [][ (last'.op = "send_tip" /\ last'.transfer_failed)
        => /\ last'.result # "Ok"
           /\ tipjar' = tipjar
           /\ jar_lamports' = jar_lamports
           /\ last'.events = <<>> ]_vars

\* C2 witness: the transfer of a tip failed on an active jar whose buffer is
\* full, where the handler had already overwritten a slot in memory.
C2_Witness ==
    /\ last.op = "send_tip"
    /\ last.transfer_failed
    /\ last.result # "Ok"
    /\ tipjar.is_active
    /\ Len(tipjar.tips_history) = MAX_TIP_HISTORY_LEN
    /\ tipjar.last_tip_index > 0

\* C3: on a paused jar a send_tip with a valid amount and memo, from any caller
\* and whatever is_private is, returns Ok, emits exactly one TipRefunded with
\* the amount of the call, invokes no transfer and leaves the record unchanged.
C3_PausedTipIsRefunded ==
    [][ (ValidSendTip(last') /\ exists /\ ~tipjar.is_active)
        => /\ last'.result = "Ok"
           /\ Len(last'.events) = 1
           /\ last'.events[1].type = "TipRefunded"
           /\ last'.events[1].lamports = last'.args.amount
           /\ last'.events[1].sender = last'.caller
           /\ last'.invoked = <<>>
           /\ tipjar' = tipjar
           /\ jar_lamports' = jar_lamports ]_vars

\* The instructions whose Accounts struct binds the record to its owner.
OwnerOnlyOps ==
    {"update_tipjar", "clear_tip_history", "toggle_tipjar_status",
     "pause_tipjar", "resume_tipjar", "withdraw_tip", "close_tipjar"}

\* C4: an owner-only instruction signed by someone who is not the record's
\* owner fails with Unauthorized, leaves the record unchanged and invokes no
\* transfer.
C4_NonOwnerIsUnauthorized ==
    [][ (last'.op \in OwnerOnlyOps /\ exists /\ last'.caller # tipjar.owner)
        => /\ last'.result = "Unauthorized"
           /\ tipjar' = tipjar
           /\ exists' = exists
           /\ jar_lamports' = jar_lamports
           /\ last'.invoked = <<>> ]_vars

\* C5: withdraw_tip by the owner fails with InsufficientFunds when the amount is
\* more than total_received, and with WithdrawalLimitExceeded when the funds are
\* sufficient and the amount is more than WITHDRAW_LIMIT; either way no transfer
\* is invoked and the record and the lamports stay as they were.
C5_WithdrawChecks ==
    [][ (last'.op = "withdraw_tip" /\ exists /\ last'.caller = tipjar.owner)
        => /\ (last'.args.amount > tipjar.total_received)
                => last'.result = "InsufficientFunds"
           /\ (/\ last'.args.amount <= tipjar.total_received
               /\ last'.args.amount > WITHDRAW_LIMIT)
                => last'.result = "WithdrawalLimitExceeded"
           /\ last'.result \in {"InsufficientFunds", "WithdrawalLimitExceeded"}
                => /\ last'.invoked = <<>>
                   /\ tipjar' = tipjar
                   /\ jar_lamports' = jar_lamports ]_vars

\* C5 witness: the owner asked for more than the limit from a jar that held it.
C5_Witness ==
    /\ last.op = "withdraw_tip"
    /\ last.result = "WithdrawalLimitExceeded"
    /\ last.caller = tipjar.owner
    /\ tipjar.total_received >= last.args.amount

\* The tip a full buffer holds in slot j (from 1) after the tips of log went
\* into an empty buffer: the latest tip whose rank is j modulo the capacity.
LatestInSlot(log, j) ==
    log[Len(log) - ((Len(log) - j) % MAX_TIP_HISTORY_LEN)]

\* C6: after MAX_TIP_HISTORY_LEN + k tips (k > 0) went into an empty history,
\* tips_history has exactly MAX_TIP_HISTORY_LEN entries, which are the last
\* MAX_TIP_HISTORY_LEN tips: the k oldest were overwritten, slot after slot in
\* the order they had been inserted.
C6_RingKeepsNewest ==
    (exists /\ Len(since_clear) > MAX_TIP_HISTORY_LEN)
    => /\ Len(tipjar.tips_history) = MAX_TIP_HISTORY_LEN
       /\ \A j \in 1..MAX_TIP_HISTORY_LEN :
              tipjar.tips_history[j] = LatestInSlot(since_clear, j)
       /\ tipjar.last_tip_index =
              (Len(since_clear) - MAX_TIP_HISTORY_LEN) % MAX_TIP_HISTORY_LEN

\* C6 witness: two tips more than the capacity went in, and the two that were
\* evicted differ from the ones that took their slots.
C6_Witness ==
    /\ exists
    /\ Len(since_clear) = MAX_TIP_HISTORY_LEN + 2
    /\ since_clear[1] # tipjar.tips_history[1]
    /\ since_clear[2] # tipjar.tips_history[2]

\* C7: tips_history never holds more than MAX_TIP_HISTORY_LEN entries and
\* last_tip_index is in [0, MAX_TIP_HISTORY_LEN).
C7_HistoryBounded ==
    /\ Len(tipjar.tips_history) <= MAX_TIP_HISTORY_LEN
    /\ tipjar.last_tip_index \in 0..(MAX_TIP_HISTORY_LEN - 1)

\* C7 witness: a full buffer whose cursor is on its last slot.
C7_Witness ==
    /\ Len(tipjar.tips_history) = MAX_TIP_HISTORY_LEN
    /\ tipjar.last_tip_index = MAX_TIP_HISTORY_LEN - 1

\* C8: total_tips_count is the number of tips accepted since creation, and no
\* instruction on an existing jar decreases it.
C8_CountOfAcceptedTips ==
    [][ /\ exists' => tipjar'.total_tips_count = tips_number'
        /\ (exists /\ exists')
             => tipjar'.total_tips_count >= tipjar.total_tips_count ]_vars

\* C8 witness: the history of a jar that has counted tips was just cleared.
C8_Witness ==
    /\ exists
    /\ last.op = "clear_tip_history"
    /\ last.result = "Ok"
    /\ tipjar.tips_history = <<>>
    /\ tipjar.total_tips_count >= 2

\* C10: close_tipjar by the owner of a jar with total_received = 0 invokes no
\* transfer and releases the account; with total_received = X > 0 it invokes one
\* transfer, of X from the jar to the owner, and when that succeeds the
\* account is left with no lamports and released.
C10_CloseTransfersAll ==
    [][ (last'.op = "close_tipjar" /\ exists /\ last'.caller = tipjar.owner)
        => /\ tipjar.total_received = 0
                => /\ last'.result = "Ok"
                   /\ last'.invoked = <<>>
           /\ tipjar.total_received > 0
                => last'.invoked =
                       <<Transfer(JarKey, tipjar.owner, tipjar.total_received)>>
           /\ last'.result = "Ok"
                => /\ ~exists'
                   /\ jar_lamports' = 0
           /\ last'.result # "Ok"
                => /\ exists'
                   /\ tipjar' = tipjar
                   /\ jar_lamports' = jar_lamports ]_vars

\* C10 witness: a jar that held tips was closed by its owner.
C10_Witness ==
    /\ ~exists
    /\ last.op = "close_tipjar"
    /\ last.result = "Ok"
    /\ Len(last.invoked) = 1
    /\ last.invoked[1].amount > 0
    /\ jar_lamports = 0

\* C11: close is terminal.  Once close_tipjar has succeeded, no later
\* instruction on the jar succeeds: not send_tip, withdraw_tip, the toggle,
\* pause, resume, update_tipjar, clear_tip_history, close_tipjar, and not a
\* second initialize_tipjar.
C11_CloseIsTerminal ==
    [][last.after_close => last'.result # "Ok"]_vars

\* C12: toggle_tipjar_status called by the owner of an existing jar succeeds,
\* flips is_active and changes nothing else of the record; the flip is never
\* a no-op, so no call fails with RedundantStatusChange, and the second of two
\* consecutive owner toggles returns is_active to the value it had before the
\* first.
C12_OwnerToggleFlips ==
    [][ /\ last'.result # "RedundantStatusChange"
        /\ (exists /\ last'.op = "toggle_tipjar_status"
                   /\ last'.caller = tipjar.owner)
           => /\ last'.result = "Ok"
              /\ tipjar' = [tipjar EXCEPT !.is_active = ~tipjar.is_active]
              /\ last'.events = << [type |-> "TipJarStatusChanged",
                                    tipjar |-> JarKey,
                                    is_active |-> ~tipjar.is_active] >>
              /\ (last.toggles > 0 => /\ last'.toggles = 2
                                      /\ tipjar'.is_active = last.was_active)
      ]_vars

\* C12 witness: the owner has toggled twice in a row, from active to paused
\* and back to active.
C12_Witness ==
    /\ exists
    /\ last.op = "toggle_tipjar_status"
    /\ last.result = "Ok"
    /\ last.toggles = 2
    /\ ~last.was_active
    /\ tipjar.is_active

\* C13: initialize_tipjar by the user the address derives from, when no account
\* is at the address and the system program creates it, fails with InvalidGoal when goal = 0, otherwise with
\* DescriptionTooLong when the description is longer than 200, otherwise with
\* CategoryTooLong when the category is longer than 100, and creates nothing
\* in these cases; otherwise it succeeds and the record it creates has
\* owner = caller, is_active = true, total_received = 0, total_tips_count = 0,
\* last_tip_index = 0 and an empty tips_history.
C13_InitializeChecks ==
    [][ (~exists /\ last'.op = "initialize_tipjar" /\ last'.caller = SeedUser
                 /\ last'.result # "CreateAccountFailed")
        => LET args == last'.args
           IN  IF args.goal = 0
                   THEN last'.result = "InvalidGoal" /\ UNCHANGED <<exists, tipjar>>
               ELSE IF args.description > 200
                   THEN /\ last'.result = "DescriptionTooLong"
                        /\ UNCHANGED <<exists, tipjar>>
               ELSE IF args.category > 100
                   THEN /\ last'.result = "CategoryTooLong"
                        /\ UNCHANGED <<exists, tipjar>>
               ELSE /\ last'.result = "Ok"
                    /\ exists'
                    /\ tipjar'.owner = last'.caller
                    /\ tipjar'.is_active = TRUE
                    /\ tipjar'.total_received = 0
                    /\ tipjar'.total_tips_count = 0
                    /\ tipjar'.last_tip_index = 0
                    /\ tipjar'.tips_history = <<>>
                    /\ tipjar'.description = args.description
                    /\ tipjar'.category = args.category
                    /\ tipjar'.goal = args.goal
      ]_vars

\* C13 witness: initialize_tipjar has just created the jar.
C13_Witness ==
    /\ exists
    /\ last.op = "initialize_tipjar"
    /\ last.result = "Ok"
    /\ tipjar.owner = last.caller
    /\ tipjar.is_active
    /\ tipjar.tips_history = <<>>
    /\ tipjar.goal = last.args.goal

\* C14: send_tip on an existing jar validates its arguments before anything
\* else.  With amount = 0 it fails with InvalidAmount, otherwise with a memo
\* longer than 100 it fails with MemoTooLong, whether the jar is active or
\* paused, private or not, whoever the sender is; the record and the
\* lamports are unchanged, no transfer is invoked and no event is emitted.
C14_SendTipValidatesFirst ==
    [][ (exists /\ last'.op = "send_tip"
                /\ (last'.args.amount = 0 \/ last'.args.memo > 100))
        => /\ last'.result = IF last'.args.amount = 0 THEN "InvalidAmount"
                             ELSE "MemoTooLong"
           /\ last'.invoked = <<>>
           /\ last'.events = <<>>
           /\ UNCHANGED <<exists, tipjar, jar_lamports>>
      ]_vars

\* C15: a send_tip that has credited its tip has emitted TipSent first, and
\* after it GoalReached if and only if total_received, with the tip credited,
\* is >= goal, whether or not total_received was already >= goal before the
\* tip; it has emitted nothing else.
C15_GoalReachedIffAtGoal ==
    (exists /\ last.op = "send_tip" /\ last.result = "Ok" /\ last.invoked # <<>>)
    => LET events == last.events
           at_goal == tipjar.total_received >= tipjar.goal
       IN  /\ Len(events) = (IF at_goal THEN 2 ELSE 1)
           /\ events[1].type = "TipSent"
           /\ events[1].amount = last.args.amount
           /\ at_goal => /\ events[2].type = "GoalReached"
                         /\ events[2].goal = tipjar.goal
                         /\ events[2].total_received = tipjar.total_received

\* C15 witness: a tip was credited to a jar that had already reached its goal
\* before the tip, and GoalReached was emitted again.
C15_Witness ==
    /\ exists
    /\ last.op = "send_tip"
    /\ last.result = "Ok"
    /\ tipjar.goal > 0
    /\ tipjar.total_received - last.args.amount >= tipjar.goal
    /\ Len(last.events) = 2
    /\ last.events[2].type = "GoalReached"

\* C16: the owner field is set by initialize_tipjar, to its caller, and while
\* the jar exists no instruction, whoever calls it and whatever ran before,
\* changes it.
C16_OwnerNeverChanges ==
    [][ /\ (exists /\ exists') => tipjar'.owner = tipjar.owner
        /\ (~exists /\ exists') => /\ last'.op = "initialize_tipjar"
                                   /\ tipjar'.owner = last'.caller
      ]_vars

\* C16 witness: update_tipjar by the owner has rewritten the description, the
\* category and the goal of a jar that has received tips, and the owner is
\* still the user who created the jar.
C16_Witness ==
    /\ exists
    /\ last.op = "update_tipjar"
    /\ last.result = "Ok"
    /\ tipjar.description = last.args.description
    /\ tipjar.total_tips_count > 0
    /\ tipjar.owner = SeedUser

\* C17: in every reachable state of an existing jar the description has
\* length at most 200 and the category has length at most 100, also after an
\* update_tipjar by the owner.
C17_LengthsBounded ==
    exists => /\ tipjar.description <= 200
              /\ tipjar.category <= 100

\* C18: pause_tipjar and resume_tipjar called by the owner of an existing jar
\* succeed whatever is_active was, set it to false and to true respectively,
\* and leave every other field of the record, and the lamports, unchanged.
C18_PauseResumeSet ==
    [][ (exists /\ last'.op \in {"pause_tipjar", "resume_tipjar"}
                /\ last'.caller = tipjar.owner)
        => /\ last'.result = "Ok"
           /\ tipjar' = [tipjar EXCEPT
                            !.is_active = (last'.op = "resume_tipjar")]
           /\ last'.invoked = <<>>
           /\ UNCHANGED <<exists, jar_lamports>>
      ]_vars

\* C18 witness: the owner has paused a jar that was paused already, and the
\* call succeeded.
C18_Witness ==
    /\ exists
    /\ last.op = "pause_tipjar"
    /\ last.caller = tipjar.owner
    /\ last.result = "Ok"
    /\ ~last.was_active
    /\ ~tipjar.is_active
    /\ tipjar.total_tips_count > 0

\* C19: clear_tip_history called by the owner of an existing jar succeeds,
\* empties tips_history and sets last_tip_index to 0, and leaves
\* total_tips_count, total_received, is_active, goal, owner and every other
\* field unchanged.
C19_ClearTipHistory ==
    [][ (exists /\ last'.op = "clear_tip_history"
                /\ last'.caller = tipjar.owner)
        => /\ last'.result = "Ok"
           /\ tipjar'.tips_history = <<>>
           /\ tipjar'.last_tip_index = 0
           /\ tipjar'.total_tips_count = tipjar.total_tips_count
           /\ tipjar'.total_received = tipjar.total_received
           /\ tipjar'.is_active = tipjar.is_active
           /\ tipjar'.goal = tipjar.goal
           /\ tipjar'.owner = tipjar.owner
           /\ tipjar' = [tipjar EXCEPT !.tips_history = <<>>,
                                       !.last_tip_index = 0]
           /\ UNCHANGED <<exists, jar_lamports>>
      ]_vars

\* C19 witness: the owner has cleared the history of a paused jar that had
\* accepted more tips than the buffer holds and still has tips credited.
C19_Witness ==
    /\ exists
    /\ last.op = "clear_tip_history"
    /\ last.caller = tipjar.owner
    /\ last.result = "Ok"
    /\ ~tipjar.is_active
    /\ tipjar.tips_history = <<>>
    /\ tipjar.last_tip_index = 0
    /\ tipjar.total_tips_count > MAX_TIP_HISTORY_LEN
    /\ tipjar.total_received > 0
    /\ tipjar.goal > 0

\* The entries of history at the indices [page * page_size,
\* min(page * page_size + page_size, len)), counted from 0, in storage order;
\* none when page * page_size is len or more.  The product is taken only when
\* both factors are under len.
PageOfHistory(history, page, page_size) ==
    LET len == Len(history)
        past_end == IF page = 0 \/ page_size = 0 THEN len = 0
                    ELSE IF page >= len \/ page_size >= len THEN TRUE
                    ELSE page * page_size >= len
        start == IF page = 0 THEN 0 ELSE page * page_size
    IN  IF past_end THEN <<>>
        ELSE SubSeq(history, start + 1,
                    IF page_size >= len - start THEN len ELSE start + page_size)

\* C20: for every page and page_size, also when page * page_size does not fit
\* 32 bits, get_tip_history raises no error, returns the entries of
\* tips_history at the indices [page * page_size, min(page * page_size +
\* page_size, len)) in storage order, which is none when the start is beyond
\* the length, and does not modify the record.
C20_GetTipHistoryPage ==
    [][ last'.op = "get_tip_history"
        => /\ last'.result = "Ok"
           /\ last'.returned = PageOfHistory(tipjar.tips_history,
                                             last'.args.page,
                                             last'.args.page_size)
           /\ UNCHANGED <<exists, tipjar, jar_lamports>>
      ]_vars

\* C21: whatever send_tip and clear_tip_history calls have run, in whatever
\* order: while tips_history holds fewer than MAX_TIP_HISTORY_LEN entries,
\* last_tip_index is 0 and the entries are the tips accepted since the history
\* was last empty, in the order they were accepted; when it is full, the
\* entries read from the slot at last_tip_index onwards, wrapping around, are
\* the last MAX_TIP_HISTORY_LEN of those tips in the order they were accepted,
\* so the slot at last_tip_index holds the oldest tip retained and each
\* insertion has evicted the oldest one.
C21_CursorOnOldest ==
    exists =>
        LET history == tipjar.tips_history
            accepted == Len(since_clear)
        IN  IF Len(history) < MAX_TIP_HISTORY_LEN
            THEN /\ tipjar.last_tip_index = 0
                 /\ history = since_clear
            ELSE /\ Len(history) = MAX_TIP_HISTORY_LEN
                 /\ accepted >= MAX_TIP_HISTORY_LEN
                 /\ \A k \in 1..MAX_TIP_HISTORY_LEN :
                        history[((tipjar.last_tip_index + k - 1)
                                     % MAX_TIP_HISTORY_LEN) + 1]
                            = since_clear[accepted - MAX_TIP_HISTORY_LEN + k]

\* C21 witness: tips were accepted, the history was cleared, and the tips
\* accepted after the clear have filled the buffer and evicted the first of
\* them: the cursor is off slot 0, on a tip older than the one before it.
C21_Witness ==
    /\ exists
    /\ tipjar.total_tips_count > Len(since_clear)
    /\ Len(since_clear) > MAX_TIP_HISTORY_LEN
    /\ Len(tipjar.tips_history) = MAX_TIP_HISTORY_LEN
    /\ tipjar.last_tip_index > 0
    /\ tipjar.tips_history[tipjar.last_tip_index + 1]
           = since_clear[Len(since_clear) - MAX_TIP_HISTORY_LEN + 1]
    /\ tipjar.tips_history[tipjar.last_tip_index + 1]
           # tipjar.tips_history[tipjar.last_tip_index]

\* C22: no instruction sets is_private.  In every reachable state of an
\* existing jar it is false, the value the record is created with; no send_tip
\* is rejected by the privacy gate, and what a send_tip to an active jar does
\* does not depend on who sends it: with a valid amount and memo, once its
\* data are read, its transfer is invoked and it fails only if the transfer
\* does.
C22_NeverPrivate ==
    /\ exists => ~tipjar.is_private
    /\ last.op = "send_tip" => last.result # "Unauthorized"
    /\ (exists /\ ValidSendTip(last) /\ last.was_active
               /\ last.result # "InstructionDidNotDeserialize")
       => /\ last.invoked = <<Transfer(last.caller, JarKey, last.args.amount)>>
          /\ last.result \in {"Ok", "TransferFailed"}

\* C22 witness: after an update_tipjar by the owner (the goal is 0, which only
\* update_tipjar can set), someone who is not the owner has tipped the active
\* jar and the tip was credited.
C22_Witness ==
    /\ exists
    /\ ~tipjar.is_private
    /\ tipjar.goal = 0
    /\ ValidSendTip(last)
    /\ last.was_active
    /\ last.caller # tipjar.owner
    /\ last.result = "Ok"
    /\ tipjar.total_received >= last.args.amount
    /\ tipjar.tips_history # <<>>

====
